---- MODULE Spec2Model ----
(***************************************************************************)
(* Freelancer earnings analysis: the SQLite-backed DataProcessor           *)
(* (src/data_processor.py) and the FreelancerAnalysisSystem resolver and   *)
(* formatter (src/main.py).                                                *)
(*                                                                         *)
(* Encoding.  Numeric cells are naturals, the SQL NULL of a numeric or     *)
(* categorical cell is -1, so that the integer order is SQLite's ORDER BY  *)
(* order (NULL sorts before every value).  Categorical text cells (region, *)
(* education_level, skill tokens) are encoded by their rank in BINARY      *)
(* collation.  Text cells matched with LIKE are sequences of characters.   *)
(* SQL and Python numbers are exact rationals [k, n, d].                   *)
(***************************************************************************)
EXTENDS Integers, Sequences, FiniteSets, TLC

\* ---------------------------------------------------------------- bounds
MaxRecords == 2

\* ------------------------------------------------------------ text cells
NULL == -1
NullText == <<"NULL">>

CryptoBank == <<"C","r","y","p","t","o","c","u","r","r","e","n","c","y",",","b","a","n","k">>
CryptoOnly == <<"c","r","y","p","t","o","c","u","r","r","e","n","c","y">>
Bank == <<"b","a","n","k">>
ExpertCap == <<"E","x","p","e","r","t">>
ExpertUpper == <<"E","X","P","E","R","T">>
ExpertLow == <<"e","x","p","e","r","t">>
Beginner == <<"b","e","g","i","n","n","e","r">>

CryptoPattern == <<"c","r","y","p","t","o","c","u","r","r","e","n","c","y">>
ExpertPattern == <<"e","x","p","e","r","t">>

\* ASCII case folding used by SQLite's LIKE
Lower(ch) ==
  CASE ch = "C" -> "c" [] ch = "E" -> "e" [] ch = "X" -> "x" [] ch = "P" -> "p"
    [] ch = "R" -> "r" [] ch = "T" -> "t" [] OTHER -> ch

\* value of  text LIKE '%pattern%'  for a non-NULL text
Like(text, pattern) ==
  \E off \in 0..(Len(text) - Len(pattern)) :
    \A i \in 1..Len(pattern) : Lower(text[off + i]) = Lower(pattern[i])

\* ------------------------------------------------------------- the table
\* rows of the freelancers table written by _load_data
Rec(e, pm, xl, pc, rg, ed, ye, sk) ==
  [earnings |-> e, payment_methods |-> pm, expertise_level |-> xl,
   projects_completed |-> pc, region |-> rg, education_level |-> ed,
   years_of_experience |-> ye, skills |-> sk]

RecordPool ==
  { Rec(100,  CryptoBank, ExpertCap,   50,   1,    1,    2,    <<1, 2>>),
    Rec(50,   Bank,       Beginner,    100,  2,    2,    1,    <<1>>),
    Rec(NULL, Bank,       ExpertUpper, 100,  1,    NULL, 1,    <<2>>),
    Rec(0,    Bank,       NullText,    NULL, NULL, 1,    NULL, <<>>),
    Rec(200,  NullText,   ExpertLow,   NULL, 2,    2,    3,    <<2, 1>>),
    Rec(0,    CryptoOnly, Beginner,    10,   1,    1,    2,    <<3>>) }

RECURSIVE SeqsUpTo(_)
SeqsUpTo(n) ==
  IF n = 0 THEN { <<>> }
  ELSE LET shorter == SeqsUpTo(n - 1)
       IN  shorter \cup { Append(s, r) : s \in { t \in shorter : Len(t) = n - 1 }, r \in RecordPool }

Datasets == SeqsUpTo(MaxRecords)

\* ------------------------------------------------------------ arithmetic
RECURSIVE Gcd(_, _)
Gcd(a, b) == IF b = 0 THEN a ELSE Gcd(b, a % b)

Abs(x) == IF x < 0 THEN -x ELSE x

\* an exact number n/d, d > 0, in lowest terms
Num(n, d) ==
  LET g == Gcd(Abs(n), d)
  IN  [k |-> "num", n |-> n \div g, d |-> d \div g]

SqlNull == [k |-> "NULL", n |-> 0, d |-> 1]
PyNone == [k |-> "None", n |-> 0, d |-> 1]
PyNaN == [k |-> "nan", n |-> 0, d |-> 1]
PyInf == [k |-> "inf", n |-> 0, d |-> 1]
PyNegInf == [k |-> "-inf", n |-> 0, d |-> 1]

RECURSIVE SumEarnings(_)
SumEarnings(rows) ==
  IF rows = <<>> THEN 0 ELSE Head(rows).earnings + SumEarnings(Tail(rows))

\* AVG(earnings) over rows: NULL cells are skipped, NULL when none is left
SqlAvgNullAsZero(rows) ==
  IF rows = <<>> THEN SqlNull
  ELSE Num(SumEarnings(SelectSeq(rows, LAMBDA r : r.earnings # NULL)), Len(rows))

SqlAvg(rows) ==
  LET present == SelectSeq(rows, LAMBDA r : r.earnings # NULL)
  IN  IF present = <<>> THEN SqlNull ELSE Num(SumEarnings(present), Len(present))

\* pandas.read_sql_query, coerce_float: a column holding only NULLs stays an
\* object column of None, a column mixing NULLs and numbers becomes float NaN
PandasColumn(col) ==
  IF \A i \in 1..Len(col) : col[i].k = "NULL"
  THEN [i \in 1..Len(col) |-> PyNone]
  ELSE [i \in 1..Len(col) |-> IF col[i].k = "NULL" THEN PyNaN ELSE col[i]]

\* the members of S in ORDER BY order (ascending, NULL first)
RECURSIVE Ascending(_)
Ascending(S) ==
  IF S = {} THEN <<>>
  ELSE LET m == CHOOSE x \in S : \A y \in S : x <= y
       IN  <<m>> \o Ascending(S \ {m})

\* ------------------------------------------------------ operation results
Ok(vals, items) == [tag |-> "ok", exc |-> "", vals |-> vals, items |-> items]
Raise(exc) == [tag |-> "raise", exc |-> exc, vals |-> <<>>, items |-> <<>>]
NotRun == [tag |-> "notrun", exc |-> "", vals |-> <<>>, items |-> <<>>]

\* execute_query runs a SELECT: the table it leaves behind
TableAfterQueryConsuming(ds) == IF ds = <<>> THEN ds ELSE Tail(ds)

TableAfterQuery(ds) == ds

\* ---------------------------------------------------- Aggregation Library
\* (crypto - other) / other * 100 on two numpy float64 values: a zero divisor
\* gives inf, -inf or nan, it does not raise
DifferencePercentage(c, o) ==
  IF o.n = 0
  THEN (IF c.n > 0 THEN PyInf ELSE IF c.n < 0 THEN PyNegInf ELSE PyNaN)
  ELSE Num((c.n * o.d - o.n * c.d) * o.d * 100, c.d * o.d * o.n)

get_crypto_vs_other_earnings(ds) ==
  LET crypto == SelectSeq(ds, LAMBDA r : r.payment_methods # NullText
                                         /\ Like(r.payment_methods, CryptoPattern))
      other == SelectSeq(ds, LAMBDA r : r.payment_methods # NullText
                                        /\ ~Like(r.payment_methods, CryptoPattern))
      crypto_earnings == PandasColumn(<<SqlAvg(crypto)>>)[1]
      other_earnings == PandasColumn(<<SqlAvg(other)>>)[1]
  IN  IF crypto_earnings.k = "None" \/ other_earnings.k = "None"
      THEN Raise("TypeError")
      ELSE Ok(<<crypto_earnings, other_earnings,
                DifferencePercentage(crypto_earnings, other_earnings)>>, <<>>)

\* dict(zip(keys, values)): one entry per distinct key, at the position of its
\* first occurrence, holding the value of its last occurrence
DictZip(keys, values) ==
  LET firsts == SelectSeq([i \in 1..Len(keys) |-> i],
                          LAMBDA i : \A j \in 1..(i - 1) : keys[j] # keys[i])
      last(k) == CHOOSE i \in 1..Len(keys) :
                   keys[i] = k /\ \A j \in (i + 1)..Len(keys) : keys[j] # k
  IN  [n \in 1..Len(firsts) |-> [key |-> keys[firsts[n]], value |-> values[last(keys[firsts[n]])]]]

\* SELECT col, AVG(earnings) ... GROUP BY col: one row per distinct value of
\* col, NULL included, delivered in the order of the grouping sorter
GroupAvg(ds, col) ==
  LET keys == Ascending({ ds[i][col] : i \in 1..Len(ds) })
      avgs == [i \in 1..Len(keys) |-> SqlAvg(SelectSeq(ds, LAMBDA r : r[col] = keys[i]))]
  IN  Ok(<<>>, DictZip(keys, PandasColumn(avgs)))

\* the same rows in the order in which the groups first appear in the table
GroupAvgUnordered(ds, col) ==
  LET keys == [i \in 1..Len(ds) |-> ds[i][col]]
      avgs == [i \in 1..Len(ds) |-> SqlAvg(SelectSeq(ds, LAMBDA r : r[col] = keys[i]))]
  IN  Ok(<<>>, DictZip(keys, PandasColumn(avgs)))

get_earnings_by_region(ds) == GroupAvg(ds, "region")

get_earnings_by_education(ds) == GroupAvg(ds, "education_level")

get_earnings_by_experience_unordered(ds) ==
  GroupAvgUnordered(ds, "years_of_experience")

get_earnings_by_experience(ds) == GroupAvg(ds, "years_of_experience")

get_expert_projects_stats(ds) ==
  LET experts == SelectSeq(ds, LAMBDA r : r.expertise_level # NullText
                                          /\ Like(r.expertise_level, ExpertPattern))
      total_experts == Num(Len(experts), 1)
      \* SUM over no row is NULL
      less == IF experts = <<>> THEN SqlNull
              ELSE Num(Len(SelectSeq(experts, LAMBDA r : r.projects_completed # NULL
                                                         /\ r.projects_completed < 100)), 1)
      \* NULL * 100.0 / 0 is NULL
      percentage == IF less.k = "NULL" \/ total_experts.n = 0 THEN SqlNull
                    ELSE Num(less.n * 100, total_experts.n)
  IN  Ok(<<PandasColumn(<<total_experts>>)[1], PandasColumn(<<less>>)[1],
           PandasColumn(<<percentage>>)[1]>>, <<>>)

\* columns of the recursive CTE split(skills, rest), and the columns the outer
\* SELECT ... FROM split reads
SplitColumns == {"skills", "rest"}
OuterSelectColumns == {"skills", "earnings"}
DefaultTopN == 5

\* the statement is rejected when it is prepared, whatever the table holds:
\* earnings is not a column of split
get_top_skills_earnings(ds, top_n) ==
  IF OuterSelectColumns \subseteq SplitColumns
  THEN Ok(<<>>, <<>>)   \* never taken
  ELSE Raise("DatabaseError")

\* ------------------------------------------------ FreelancerAnalysisSystem
AnalysisKinds ==
  {"crypto_vs_other", "earnings_by_region", "expert_projects",
   "earnings_by_experience", "top_skills", "earnings_by_education"}

Method(kind) ==
  CASE kind = "crypto_vs_other" -> "get_crypto_vs_other_earnings"
    [] kind = "earnings_by_region" -> "get_earnings_by_region"
    [] kind = "expert_projects" -> "get_expert_projects_stats"
    [] kind = "earnings_by_experience" -> "get_earnings_by_experience"
    [] kind = "top_skills" -> "get_top_skills_earnings"
    [] kind = "earnings_by_education" -> "get_earnings_by_education"

\* a bound method called as the code calls it; top_n is the argument passed
CallMethod(method, ds, top_n) ==
  CASE method = "get_crypto_vs_other_earnings" -> get_crypto_vs_other_earnings(ds)
    [] method = "get_earnings_by_region" -> get_earnings_by_region(ds)
    [] method = "get_expert_projects_stats" -> get_expert_projects_stats(ds)
    [] method = "get_earnings_by_experience" -> get_earnings_by_experience(ds)
    [] method = "get_top_skills_earnings" -> get_top_skills_earnings(ds, top_n)
    [] method = "get_earnings_by_education" -> get_earnings_by_education(ds)

\* __init__: data_processor is None, so every entry of the table is None
InitialAnalyses == [kind \in AnalysisKinds |-> "None"]

\* the table load_data installs once DataProcessor(...) has returned
BoundAnalyses == [kind \in AnalysisKinds |-> Method(kind)]

\* positional parameters DataProcessor.__init__ takes besides self, and the
\* positional arguments load_data passes to DataProcessor(csv_path)
DataProcessorInitParams == 0
LoadDataCallArgs == 1

\* load_data: the state it leaves and whether it re-raised
load_data(dp, analyses) ==
  IF LoadDataCallArgs = DataProcessorInitParams
  THEN [data_processor |-> "DataProcessor", available_analyses |-> BoundAnalyses,
        raised |-> FALSE]
  ELSE [data_processor |-> dp, available_analyses |-> analyses, raised |-> TRUE]

\* ----------------------------------------------------- classifier responses
MaxTopN == 2
NoParam == 0

\* what client.chat.completions.create and json.loads deliver: the call
\* fails, the content is not JSON, the JSON is not an object, or it is an
\* object whose analysis_type is a text, is absent, or is a JSON array
Response(kind, type_kind, analysis_type, top_n) ==
  [kind |-> kind, type_kind |-> type_kind, analysis_type |-> analysis_type, top_n |-> top_n]

Responses ==
  { Response(k, "absent", "", NoParam) : k \in {"api_error", "unparsable", "array"} }
  \cup { Response("object", "text", t, NoParam) : t \in AnalysisKinds \cup {"salary_forecast"} }
  \cup { Response("object", "text", "top_skills", n) : n \in 1..MaxTopN }
  \cup { Response("object", "absent", "", NoParam), Response("object", "list", "", NoParam) }

NoResponse == Response("none", "absent", "", NoParam)

\* the dict analyze_query returns
ErrorResult(message, carries_id, id) ==
  [error |-> TRUE, message |-> message, carries_id |-> carries_id, id |-> id,
   analysis_type |-> "", result |-> NotRun]
AnalysisResult(analysis_type, result) ==
  [error |-> FALSE, message |-> "", carries_id |-> FALSE, id |-> "",
   analysis_type |-> analysis_type, result |-> result]
NoAnalysis ==
  [error |-> FALSE, message |-> "", carries_id |-> FALSE, id |-> "",
   analysis_type |-> "", result |-> NotRun]

\* the aggregation analyze_query ran, with the top_n it ran with
Call(method, top_n) == [method |-> method, top_n |-> top_n]
NoCall == Call("", 0)

\* analysis_request.get('analysis_type'): None when the field is absent
RequestedType(resp) == IF resp.type_kind = "absent" THEN "None" ELSE resp.analysis_type

\* analyze_query with the membership test replaced by a default analysis
analyze_query_fallback(resp, analyses, ds) ==
  LET analysis_type == IF resp.kind = "object" /\ resp.type_kind = "text"
                          /\ resp.analysis_type \in DOMAIN analyses
                       THEN resp.analysis_type ELSE "crypto_vs_other"
      analysis_func == analyses[analysis_type]
      result == CallMethod(analysis_func, ds, DefaultTopN)
  IN  IF analysis_func = "None"
      THEN [ret |-> ErrorResult("TypeError", FALSE, ""), call |-> NoCall]
      ELSE IF result.tag = "raise"
           THEN [ret |-> ErrorResult(result.exc, FALSE, ""), call |-> Call(analysis_func, DefaultTopN)]
           ELSE [ret |-> AnalysisResult(analysis_type, result), call |-> Call(analysis_func, DefaultTopN)]

\* analyze_query: the dict returned and the aggregation call made
analyze_query(resp, analyses, ds) ==
  CASE resp.kind = "api_error" -> [ret |-> ErrorResult("APIError", FALSE, ""), call |-> NoCall]
    [] resp.kind = "unparsable" -> [ret |-> ErrorResult("JSONDecodeError", FALSE, ""), call |-> NoCall]
    [] resp.kind = "array" -> [ret |-> ErrorResult("AttributeError", FALSE, ""), call |-> NoCall]
    [] resp.kind = "object" ->
         IF resp.type_kind = "list"
         THEN \* analysis_type not in dict: unhashable type
              [ret |-> ErrorResult("TypeError", FALSE, ""), call |-> NoCall]
         ELSE IF resp.type_kind = "absent" \/ resp.analysis_type \notin DOMAIN analyses
         THEN [ret |-> ErrorResult("not available", TRUE, RequestedType(resp)), call |-> NoCall]
         ELSE LET analysis_func == analyses[resp.analysis_type]
                  \* analysis_func(): no argument is passed
                  top_n == DefaultTopN
                  result == CallMethod(analysis_func, ds, top_n)
              IN  IF analysis_func = "None"
                  THEN [ret |-> ErrorResult("TypeError", FALSE, ""), call |-> NoCall]
                  ELSE IF result.tag = "raise"
                  THEN [ret |-> ErrorResult(result.exc, FALSE, ""), call |-> Call(analysis_func, top_n)]
                  ELSE [ret |-> AnalysisResult(resp.analysis_type, result),
                        call |-> Call(analysis_func, top_n)]

\* ------------------------------------------------------------ format_response
NoKey == -2
Line(label, key, amount) == [label |-> label, key |-> key, amount |-> amount]
Plain == [k |-> "plain", v |-> 0]

\* f"{value}" without a format specification: None prints as None
Shown(value) == [k |-> IF value.k = "num" THEN "str" ELSE value.k, v |-> value.n]

\* format(value, ".<digits>f") of a float; scale is 10^digits
Fixed(value, scale) ==
  IF value.k = "num"
  THEN [k |-> "fixed", v |-> (2 * value.n * scale + value.d) \div (2 * value.d)]
  ELSE [k |-> value.k, v |-> 0]

Text(lines) == [tag |-> "text", exc |-> "", lines |-> lines]
FormatRaise(exc) == [tag |-> "raise", exc |-> exc, lines |-> <<>>]
NoText == [tag |-> "none", exc |-> "", lines |-> <<>>]

\* "\n".join(f"- {key}: ${value:.2f}" for key, value in result.items())
ItemLines(header, items) ==
  IF \E i \in 1..Len(items) : items[i].value.k = "None"
  THEN FormatRaise("TypeError")
  ELSE Text(<<Line(header, NoKey, Plain)>>
            \o [i \in 1..Len(items) |-> Line("-", items[i].key, Fixed(items[i].value, 100))])

format_response(analysis_result) ==
  IF analysis_result.error
  THEN Text(<<Line("Error", NoKey, Plain)>>)
  ELSE LET analysis_type == analysis_result.analysis_type
           result == analysis_result.result
       IN  CASE analysis_type = "crypto_vs_other" ->
                  IF \E i \in 1..3 : result.vals[i].k = "None"
                  THEN FormatRaise("TypeError")
                  ELSE Text(<<Line("Crypto vs Other Payment Methods Analysis", NoKey, Plain),
                              Line("crypto_earnings", NoKey, Fixed(result.vals[1], 100)),
                              Line("other_earnings", NoKey, Fixed(result.vals[2], 100)),
                              Line("difference_percentage", NoKey, Fixed(result.vals[3], 10))>>)
             [] analysis_type = "earnings_by_region" ->
                  ItemLines("Earnings by Region", result.items)
             [] analysis_type = "expert_projects" ->
                  IF result.vals[3].k = "None"
                  THEN FormatRaise("TypeError")
                  ELSE Text(<<Line("Expert Projects Analysis", NoKey, Plain),
                              Line("total_experts", NoKey, Shown(result.vals[1])),
                              Line("experts_less_than_100", NoKey, Shown(result.vals[2])),
                              Line("percentage", NoKey, Fixed(result.vals[3], 10))>>)
             [] analysis_type = "earnings_by_experience" ->
                  ItemLines("Earnings by Experience", result.items)
             [] analysis_type = "top_skills" ->
                  ItemLines("Top Skills by Earnings", result.items)
             [] analysis_type = "earnings_by_education" ->
                  ItemLines("Earnings by Education Level", result.items)
             [] OTHER -> Text(<<Line("Analysis completed", NoKey, Plain)>>)

\* ---------------------------------------------------------------- state
VARIABLES
  dataset,             \* rows of the freelancers table of the DataProcessor
  first_run,           \* per DataProcessor method, what its first call returned
  last_run,            \* per DataProcessor method, what its latest call returned
  top_n_run,           \* top_n of the latest get_top_skills_earnings call
  data_processor,      \* FreelancerAnalysisSystem.data_processor
  available_analyses,  \* FreelancerAnalysisSystem.available_analyses
  startup,             \* main: "pending", "loaded", or "failed" (main returned)
  analysis_request,    \* the classifier response of the latest query
  analysis_result,     \* the dict handed to format_response
  invoked,             \* the aggregation call analyze_query made for it
  response             \* what format_response returned or raised

vars == <<dataset, first_run, last_run, top_n_run, data_processor, available_analyses,
          startup, analysis_request, analysis_result, invoked, response>>

Methods == { Method(kind) : kind \in AnalysisKinds }

Init ==
  /\ dataset \in Datasets
  /\ first_run = [m \in Methods |-> NotRun]
  /\ last_run = [m \in Methods |-> NotRun]
  /\ top_n_run = 0
  /\ data_processor = "None"
  /\ available_analyses = InitialAnalyses
  /\ startup = "pending"
  /\ analysis_request = NoResponse
  /\ analysis_result = NoAnalysis
  /\ invoked = NoCall
  /\ response = NoText

system_vars == <<data_processor, available_analyses, startup, analysis_request, invoked>>
library_vars == <<dataset, first_run, last_run, top_n_run>>

\* a direct call of a DataProcessor method
Run(method, top_n) ==
  LET result == CallMethod(method, dataset, top_n)
  IN  /\ dataset' = TableAfterQuery(dataset)
      /\ first_run' = IF first_run[method].tag = "notrun"
                      THEN [first_run EXCEPT ![method] = result] ELSE first_run
      /\ last_run' = [last_run EXCEPT ![method] = result]
      /\ top_n_run' = IF method = "get_top_skills_earnings" THEN top_n ELSE top_n_run
      /\ UNCHANGED <<system_vars, analysis_result, response>>

CryptoVsOtherEarnings == Run("get_crypto_vs_other_earnings", 0)
EarningsByRegion == Run("get_earnings_by_region", 0)
ExpertProjectsStats == Run("get_expert_projects_stats", 0)
EarningsByExperience == Run("get_earnings_by_experience", 0)
TopSkillsEarnings == \E top_n \in (0..MaxTopN) \cup {DefaultTopN} : Run("get_top_skills_earnings", top_n)
EarningsByEducation == Run("get_earnings_by_education", 0)

\* format_response on the AnalysisResult of an aggregation that returned
FormatAggregation ==
  \E kind \in AnalysisKinds :
    /\ last_run[Method(kind)].tag = "ok"
    /\ analysis_result' = AnalysisResult(kind, last_run[Method(kind)])
    /\ response' = format_response(analysis_result')
    /\ UNCHANGED <<system_vars, library_vars>>

\* main, lines 154-158
LoadData ==
  /\ startup = "pending"
  /\ LET after == load_data(data_processor, available_analyses)
     IN  /\ data_processor' = after.data_processor
         /\ available_analyses' = after.available_analyses
         /\ startup' = IF after.raised THEN "failed" ELSE "loaded"
  /\ UNCHANGED <<library_vars, analysis_request, analysis_result, invoked, response>>

\* one analyze_query call, on any classifier response
AnalyzeQuery ==
  \E resp \in Responses :
    LET out == analyze_query(resp, available_analyses, dataset)
    IN  /\ analysis_request' = resp
        /\ analysis_result' = out.ret
        /\ invoked' = out.call
        /\ response' = NoText
        /\ UNCHANGED <<library_vars, data_processor, available_analyses, startup>>

\* the format_response call that follows it
FormatResponse ==
  /\ analysis_request # NoResponse
  /\ response = NoText
  /\ response' = format_response(analysis_result)
  /\ UNCHANGED <<library_vars, system_vars, analysis_result>>

\* the Aggregation Library and the formatter, called directly
Next ==
  \/ CryptoVsOtherEarnings
  \/ EarningsByRegion
  \/ ExpertProjectsStats
  \/ EarningsByExperience
  \/ TopSkillsEarnings
  \/ EarningsByEducation
  \/ FormatAggregation

Spec == Init /\ [][Next]_vars

\* the FreelancerAnalysisSystem object: load_data and the query path
NextSystem ==
  \/ LoadData
  \/ AnalyzeQuery
  \/ FormatResponse

SpecSystem == Init /\ [][NextSystem]_vars

\* ------------------------------------------------------------ properties
RECURSIVE SumAt(_, _)
SumAt(ds, idx) ==
  IF idx = {} THEN 0
  ELSE LET i == CHOOSE x \in idx : TRUE
       IN  ds[i].earnings + SumAt(ds, idx \ {i})

\* value is the arithmetic mean of earnings over the records at idx
IsMeanOf(value, ds, idx) ==
  /\ idx # {}
  /\ value.k = "num"
  /\ value.n * Cardinality(idx) = SumAt(ds, idx) * value.d

Missing(value) == value.k \in {"None", "nan"}

IsExpert(r) == r.expertise_level # NullText /\ Like(r.expertise_level, ExpertPattern)
IsCrypto(r) == r.payment_methods # NullText /\ Like(r.payment_methods, CryptoPattern)

Unregistered(resp) ==
  /\ resp.kind = "object"
  /\ \/ resp.type_kind = "absent"
     \/ resp.type_kind = "text" /\ resp.analysis_type \notin AnalysisKinds

C2_ZeroExpertsAllZero ==
  LET run == last_run["get_expert_projects_stats"]
  IN  (run.tag # "notrun" /\ \A i \in 1..Len(dataset) : ~IsExpert(dataset[i])) =>
        /\ run.tag = "ok"
        /\ run.vals = <<Num(0, 1), Num(0, 1), Num(0, 1)>>

\* C3: crypto_vs_other_earnings never raises, and when the ratio cannot be
\* computed (a partition without a present earnings value, or other_earnings
\* equal to zero) difference_percentage is an explicit undefined marker, not
\* infinity, NaN or a number.
C3_RatioUndefinedIsFlagged ==
  LET run == last_run["get_crypto_vs_other_earnings"]
      crypto == { i \in 1..Len(dataset) : IsCrypto(dataset[i]) /\ dataset[i].earnings # NULL }
      other == { i \in 1..Len(dataset) : dataset[i].payment_methods # NullText
                                         /\ ~IsCrypto(dataset[i]) /\ dataset[i].earnings # NULL }
      computable == crypto # {} /\ other # {} /\ SumAt(dataset, other) # 0
  IN  run.tag # "notrun" =>
        /\ run.tag = "ok"
        /\ ~computable => run.vals[3].k \notin {"inf", "-inf", "nan", "num"}

\* the entries of a grouped result against the table: the keys are exactly
\* the members of categories, once each, and every value is the mean of the
\* present earnings of its category (missing when the category has none)
GroupedAsClaimed(run, ds, col, categories) ==
  /\ run.tag = "ok"
  /\ { run.items[i].key : i \in 1..Len(run.items) } = categories
  /\ \A i, j \in 1..Len(run.items) : run.items[i].key = run.items[j].key => i = j
  /\ \A i \in 1..Len(run.items) :
       LET idx == { n \in 1..Len(ds) : ds[n][col] = run.items[i].key /\ ds[n].earnings # NULL }
       IN  IF idx = {} THEN Missing(run.items[i].value)
           ELSE IsMeanOf(run.items[i].value, ds, idx)

Regions(ds) == { ds[i].region : i \in 1..Len(ds) }
EducationLevels(ds) == { ds[i].education_level : i \in 1..Len(ds) }

\* C4 as stated: earnings_by_region and earnings_by_education have one entry
\* per distinct non-missing category and none for records whose category is
\* missing; each value is the mean of the present earnings of the category.
C4_NoEntryForMissingCategory ==
  /\ last_run["get_earnings_by_region"].tag # "notrun" =>
       GroupedAsClaimed(last_run["get_earnings_by_region"], dataset,
                        "region", Regions(dataset) \ {NULL})
  /\ last_run["get_earnings_by_education"].tag # "notrun" =>
       GroupedAsClaimed(last_run["get_earnings_by_education"], dataset,
                        "education_level", EducationLevels(dataset) \ {NULL})

\* C4 amended: earnings_by_region and earnings_by_education have exactly one
\* entry per distinct value of the grouping column, the records whose
\* category is missing forming one entry keyed by the missing marker; each
\* value is the mean of the present earnings of its category, and is missing
\* when the category has no present earnings value.
C4_OneEntryPerCategory ==
  /\ last_run["get_earnings_by_region"].tag # "notrun" =>
       GroupedAsClaimed(last_run["get_earnings_by_region"], dataset,
                        "region", Regions(dataset))
  /\ last_run["get_earnings_by_education"].tag # "notrun" =>
       GroupedAsClaimed(last_run["get_earnings_by_education"], dataset,
                        "education_level", EducationLevels(dataset))

C4_Witness ==
  /\ Len(dataset) = 2
  /\ NULL \in Regions(dataset)
  /\ \E i \in 1..2 : dataset[i].earnings = NULL
  /\ Len(last_run["get_earnings_by_region"].items) = 2
  /\ last_run["get_earnings_by_education"].tag = "ok"

\* C5: top_skills_earnings(top_n = N) returns at most N entries in descending
\* order of value, the value of a skill token being the mean of earnings over
\* all records whose skills list contains the token.
C5_TopSkillsContract ==
  LET run == last_run["get_top_skills_earnings"]
      has(r, token) == \E p \in 1..Len(r.skills) : r.skills[p] = token
  IN  run.tag # "notrun" =>
        /\ run.tag = "ok"
        /\ Len(run.items) <= top_n_run
        /\ \A i \in 1..(Len(run.items) - 1) :
             run.items[i].value.n * run.items[i + 1].value.d
               >= run.items[i + 1].value.n * run.items[i].value.d
        /\ \A i \in 1..Len(run.items) :
             IsMeanOf(run.items[i].value, dataset,
                      { n \in 1..Len(dataset) : has(dataset[n], run.items[i].key)
                                                /\ dataset[n].earnings # NULL })

\* C6: whatever the order of the records, the entries of
\* earnings_by_experience are in ascending order of the years_of_experience
\* key (the missing key, when there is one, sorts first), and format_response
\* renders one line per entry in that order.
C6_ExperienceAscending ==
  LET run == last_run["get_earnings_by_experience"]
  IN  /\ run.tag # "notrun" =>
           /\ run.tag = "ok"
           /\ \A i, j \in 1..Len(run.items) : i < j => run.items[i].key < run.items[j].key
      /\ (analysis_result.analysis_type = "earnings_by_experience" /\ response.tag = "text") =>
           /\ analysis_result.result = run
           /\ Len(response.lines) = Len(run.items) + 1
           /\ \A i \in 1..Len(run.items) : response.lines[i + 1].key = run.items[i].key
           /\ \A i, j \in 2..Len(response.lines) :
                i < j => response.lines[i].key < response.lines[j].key

C6_Witness ==
  /\ Len(dataset) = 2
  /\ dataset[1].years_of_experience > dataset[2].years_of_experience
  /\ dataset[2].years_of_experience # NULL
  /\ analysis_result.analysis_type = "earnings_by_experience"
  /\ response.tag = "text"
  /\ Len(response.lines) = 3

\* C7: a top_skills request carrying top_n = k runs top_skills_earnings with
\* top_n = k.
C7_ParametersAreApplied ==
  (/\ analysis_request.kind = "object"
   /\ analysis_request.type_kind = "text"
   /\ analysis_request.analysis_type = "top_skills"
   /\ analysis_request.top_n # NoParam) =>
     invoked = Call("get_top_skills_earnings", analysis_request.top_n)

\* C8: format_response never lets an exception escape, whatever analyze_query
\* or an aggregation handed to it, and an error result is rendered as one
\* diagnostic line.
C8_EveryResponseIsText ==
  /\ response.tag # "raise"
  /\ (analysis_result.error /\ response.tag = "text") =>
       response.lines = <<Line("Error", NoKey, Plain)>>

C10_RegistryAlwaysBound ==
  /\ data_processor # "None"
  /\ \A kind \in AnalysisKinds : available_analyses[kind] = Method(kind)

====
